---- MODULE Spec2Model ----
(***************************************************************************)
(* Model of datapull_sample.py: class SnowflakeDataPull and main().         *)
(*                                                                         *)
(* One run of main() is a walk of the program counter pc through the        *)
(* method calls main() makes, in the order main() makes them.  Each method  *)
(* is one action.  The files the program reads (configuration file, SQL     *)
(* file), the directory the script lives in, and the outcome of every call  *)
(* into the database client and the tabular-data library are the inputs.    *)
(* The output file outlives a run, so that a second run of the program      *)
(* meets what the first one left on disk.                                   *)
(*                                                                         *)
(* Paths are sequences of tokens, "/" being the separator token (POSIX).    *)
(* Text is a sequence of characters.  An optional value (Python None or a   *)
(* value) is a sequence of length 0 or 1.                                   *)
(***************************************************************************)
EXTENDS Integers, Sequences, FiniteSets, TLC

\* ------------------------------------------------------------------ bounds
MaxRuns == 2
MaxRows == 1

\* --------------------------------------------------------------- constants
None == <<>>
Some(v) == <<v>>

\* the section names load_config looks for
SNOWFLAKE_SERVER == "SNOWFLAKE_SERVER"
SNOWFLAKE_DATAPULL == "SNOWFLAKE_DATAPULL"
QUERIES == "QUERIES"
SectionNames == {SNOWFLAKE_SERVER, SNOWFLAKE_DATAPULL, QUERIES}

\* the keys connect() reads from sf_config
ConnKeys == {"user", "password", "account", "warehouse", "database", "schema", "role"}

\* the fallback of queries_config.get('sql_query', 'customer.sql')
DefaultSqlFile == <<"customer.sql">>

\* ------------------------------------------------------------------ inputs
\* os.path.dirname(os.path.abspath(__file__)): absolute, normalised, and
\* ending in "/" only when it is the root
BaseDirs == { <<"/">>, <<"/", "app">> }

\* values the sql_query key can hold: empty, relative, absolute
SqlPathValues == { <<>>, <<"q.sql">>, <<"/", "q.sql">> }

\* characters str.strip() removes
Whitespace == {" ", "\n"}

\* texts the SQL file can hold: empty, whitespace only, and statements with
\* and without whitespace around and inside them
SqlTexts ==
    { <<>>, <<" ">>, <<"\n">>, <<" ", "\n">>,
      <<"S">>, <<" ", "S", "\n">>, <<"S", " ", "S">> }

SeqsUpTo(S, n) == UNION { [1..k -> S] : k \in 0..n }

\* what is found at the resolved SQL path: nothing, a file that cannot be
\* opened for reading, or a readable file with its text
SqlFileStates ==
    { [kind |-> "missing", text |-> <<>>], [kind |-> "unreadable", text |-> <<>>] }
    \cup { [kind |-> "file", text |-> t] : t \in SqlTexts }

\* A configuration file: absent; present but rejected by the parser; or
\* parsed into sections.  connKeys are the keys the two connection sections
\* supply together; sql_query is the value of [QUERIES] sql_query, if any.
NoConfig == [kind |-> "missing", sections |-> {}, connKeys |-> {}, sql_query |-> None]
BadConfig == [kind |-> "malformed", sections |-> {}, connKeys |-> {}, sql_query |-> None]
ConfigFiles ==
    {NoConfig, BadConfig}
    \cup { [kind |-> "parsed", sections |-> s, connKeys |-> k, sql_query |-> q] :
             s \in SUBSET SectionNames,
             k \in {ConnKeys, ConnKeys \ {"role"}},
             q \in {None} \cup { Some(p) : p \in SqlPathValues } }

\* fields that cannot matter are fixed, so that one file is one value
WellFormedConfig(c) ==
    c.kind = "parsed" =>
        /\ (~({SNOWFLAKE_SERVER, SNOWFLAKE_DATAPULL} \subseteq c.sections) => c.connKeys = ConnKeys)
        /\ (~({SNOWFLAKE_SERVER, SNOWFLAKE_DATAPULL, QUERIES} \subseteq c.sections) => c.sql_query = None)

Columns == { <<"X">>, <<"X", "Y">> }
Values == {1, 2}

\* the result tables fetch_pandas_all can deliver
Tables ==
    UNION { { [cols |-> c, rows |-> r] :
                r \in SeqsUpTo([1..Len(c) -> Values], MaxRows) } : c \in Columns }

NoFile == [exists |-> FALSE, lines |-> <<>>]
File(l) == [exists |-> TRUE, lines |-> l]
InitialOutputs == { NoFile, File(<< <<"stale">> >>) }

VARIABLES
    pc,                 \* where main() stands
    runs,               \* runs of the program started so far
    config_file,        \* the file at config_path
    base_dir,           \* directory of the script
    sql_file,           \* what is at the resolved SQL path
    output_csv,         \* the file at output_csv_path
    sf_config,          \* self.sf_config: the keys of the merged mapping ({} for None)
    queries_config,     \* self.queries_config: set of <<key, value>> pairs
    conn, cur,          \* self.conn, self.cur: None or Some(handle)
    connState, curState,\* the handles themselves: "none", "open", "closed"
    trace,              \* calls made in this run, in order
    ret,                \* return values of load_config and connect in this run
    query,              \* what get_sql_query returned
    sql_file_full_path, \* the path get_sql_query resolved
    execStage,          \* how the execute_query call of this run ended
    exc,                \* the exception that left main(), if any
    outputAtStart,      \* output_csv as this run found it
    lastExport,         \* the table of the last completed to_csv
    exportCount         \* completed to_csv calls so far

vars == << pc, runs, config_file, base_dir, sql_file, output_csv, sf_config,
           queries_config, conn, cur, connState, curState, trace, ret, query,
           sql_file_full_path, execStage, exc, outputAtStart, lastExport,
           exportCount >>

env == << config_file, base_dir, sql_file >>
obj == << sf_config, queries_config, conn, cur >>
handles == << connState, curState >>
disk == << output_csv, lastExport, exportCount >>

NoRet == [load_config |-> "not called", connect |-> "not called"]

Called(name) == \E i \in 1..Len(trace) : trace[i] = name
Count(name) == Cardinality({ i \in 1..Len(trace) : trace[i] = name })
Pos(name) == IF Called(name) THEN CHOOSE i \in 1..Len(trace) : trace[i] = name ELSE 0

\* ------------------------------------------------------------- __init__
Init ==
    /\ pc = "load_config"
    /\ runs = 1
    /\ config_file \in { c \in ConfigFiles : WellFormedConfig(c) }
    /\ base_dir \in BaseDirs
    /\ sql_file \in SqlFileStates
    /\ output_csv \in InitialOutputs
    /\ sf_config = {}
    /\ queries_config = {}
    /\ conn = None
    /\ cur = None
    /\ connState = "none"
    /\ curState = "none"
    /\ trace = <<>>
    /\ ret = NoRet
    /\ query = None
    /\ sql_file_full_path = None
    /\ execStage = "not called"
    /\ exc = "none"
    /\ outputAtStart = output_csv
    /\ lastExport = None
    /\ exportCount = 0

\* ------------------------------------------------------------ load_config
\* variant: one of the two sections is taken to be enough
HasRequiredSections_Either(sections) ==
    SNOWFLAKE_SERVER \in sections \/ SNOWFLAKE_DATAPULL \in sections

HasRequiredSections(sections) ==
    SNOWFLAKE_SERVER \in sections /\ SNOWFLAKE_DATAPULL \in sections

\* config['QUERIES'] if 'QUERIES' in config else {}
QueriesSection(c) ==
    IF QUERIES \in c.sections /\ c.sql_query # None
    THEN { <<"sql_query", c.sql_query[1]>> }
    ELSE {}

\* main(): if not load_config(): return
PcAfterLoadConfig(ok) == IF ok THEN "connect" ELSE "returned"

load_config ==
    /\ pc = "load_config"
    /\ trace' = Append(trace, "load_config")
    /\ UNCHANGED << runs, env, disk, conn, cur, handles, query,
                    sql_file_full_path, execStage, outputAtStart >>
    /\ CASE config_file.kind = "missing" ->
              /\ ret' = [ret EXCEPT !.load_config = "False"]
              /\ pc' = PcAfterLoadConfig(FALSE)
              /\ UNCHANGED << sf_config, queries_config, exc >>
         [] config_file.kind = "malformed" ->
              \* config.read() raises configparser.Error; nothing catches it
              /\ pc' = "raised"
              /\ exc' = "config.read"
              /\ UNCHANGED << sf_config, queries_config, ret >>
         [] config_file.kind = "parsed" /\ HasRequiredSections(config_file.sections) ->
              /\ sf_config' = config_file.connKeys
              /\ queries_config' = QueriesSection(config_file)
              /\ ret' = [ret EXCEPT !.load_config = "True"]
              /\ pc' = PcAfterLoadConfig(TRUE)
              /\ UNCHANGED exc
         [] OTHER ->
              /\ ret' = [ret EXCEPT !.load_config = "False"]
              /\ pc' = PcAfterLoadConfig(FALSE)
              /\ UNCHANGED << sf_config, queries_config, exc >>

\* ---------------------------------------------------------------- connect
\* variant: main() goes on after a failed connect()
PcAfterConnect_NoReturn(ok) == "get_sql_query"

\* main(): if not connect(): return
PcAfterConnect(ok) == IF ok THEN "get_sql_query" ELSE "returned"

connect ==
    /\ pc = "connect"
    /\ UNCHANGED << runs, env, disk, sf_config, queries_config, query,
                    sql_file_full_path, execStage, exc, outputAtStart >>
    /\ \E outcome \in {"connected", "connect raises", "cursor raises"} :
         IF ~(ConnKeys \subseteq sf_config) \/ outcome = "connect raises"
         THEN \* KeyError on a missing key, or snowflake.connector.connect raised
              /\ trace' = trace \o <<"connect">>
              /\ ret' = [ret EXCEPT !.connect = "False"]
              /\ pc' = PcAfterConnect(FALSE)
              /\ UNCHANGED << conn, cur, handles >>
         ELSE IF outcome = "cursor raises"
         THEN \* self.conn is assigned and open; conn.cursor() raised
              /\ trace' = trace \o <<"connect", "connector.connect">>
              /\ conn' = Some("connection")
              /\ connState' = "open"
              /\ ret' = [ret EXCEPT !.connect = "False"]
              /\ pc' = PcAfterConnect(FALSE)
              /\ UNCHANGED << cur, curState >>
         ELSE /\ trace' = trace \o <<"connect", "connector.connect", "conn.cursor">>
              /\ conn' = Some("connection")
              /\ connState' = "open"
              /\ cur' = Some("cursor")
              /\ curState' = "open"
              /\ ret' = [ret EXCEPT !.connect = "True"]
              /\ pc' = PcAfterConnect(TRUE)

\* ---------------------------------------------------------- get_sql_query
\* dict.get / SectionProxy.get with a fallback
MapGet(m, key, default) ==
    IF \E kv \in m : kv[1] = key
    THEN (CHOOSE kv \in m : kv[1] = key)[2]
    ELSE default

\* os.path.isabs
IsAbs(p) == Len(p) > 0 /\ p[1] = "/"

\* os.path.join(a, p)
PathJoin(a, p) ==
    IF IsAbs(p) THEN p
    ELSE IF a = <<>> \/ a[Len(a)] = "/" THEN a \o p
    ELSE a \o <<"/">> \o p

\* variant: the configured path is used as it is
ResolvePath_NoBase(base, p) == p

\* os.path.join(base_dir, p) if not os.path.isabs(p) else p
ResolvePath(base, p) == IF ~IsAbs(p) THEN PathJoin(base, p) ELSE p

\* what os.path.exists / open find at a path: nothing at the empty path, a
\* directory at a path ending in the separator
FileAt(path) ==
    IF path = <<>> THEN [kind |-> "missing", text |-> <<>>]
    ELSE IF path[Len(path)] = "/" THEN [kind |-> "directory", text |-> <<>>]
    ELSE sql_file

RECURSIVE LStrip(_)
LStrip(s) == IF s # <<>> /\ Head(s) \in Whitespace THEN LStrip(Tail(s)) ELSE s

RECURSIVE RStrip(_)
RStrip(s) ==
    IF s # <<>> /\ s[Len(s)] \in Whitespace THEN RStrip(SubSeq(s, 1, Len(s) - 1)) ELSE s

\* str.strip()
Strip(s) == RStrip(LStrip(s))

\* variant: the text is tested without strip()
IsBlank_NoStrip(text) == text = <<>>

\* not query.strip()
IsBlank(text) == Strip(text) = <<>>

\* Python truthiness of what get_sql_query returns: None and '' are false
Falsy(q) == q = None \/ q[1] = <<>>

\* main(): if not query: close(); return
PcAfterGetSqlQuery(q) == IF Falsy(q) THEN "close_107" ELSE "execute_query"

get_sql_query ==
    /\ pc = "get_sql_query"
    /\ trace' = Append(trace, "get_sql_query")
    /\ UNCHANGED << runs, env, disk, obj, handles, ret, execStage, outputAtStart >>
    /\ LET sql_file_path == MapGet(queries_config, "sql_query", DefaultSqlFile)
           full == ResolvePath(base_dir, sql_file_path)
           f == FileAt(full)
       IN /\ sql_file_full_path' = Some(full)
          /\ CASE f.kind = "missing" ->
                    /\ query' = None
                    /\ pc' = PcAfterGetSqlQuery(None)
                    /\ UNCHANGED exc
               [] f.kind \in {"unreadable", "directory"} ->
                    \* open() raises OSError; nothing catches it
                    /\ pc' = "raised"
                    /\ exc' = "open"
                    /\ UNCHANGED query
               [] OTHER ->
                    LET q == IF IsBlank(f.text) THEN None ELSE Some(f.text)
                    IN /\ query' = q
                       /\ pc' = PcAfterGetSqlQuery(q)
                       /\ UNCHANGED exc

\* ---------------------------------------------------------- execute_query
Digits == <<"0", "1", "2", "3", "4", "5", "6", "7", "8", "9">>

\* how to_csv writes a cell
FormatValue(v) == Digits[v + 1]

RECURSIVE JoinComma(_)
JoinComma(fields) ==
    IF Len(fields) <= 1 THEN fields
    ELSE <<Head(fields), ",">> \o JoinComma(Tail(fields))

\* df.to_csv(path, index=False): the header line, then one line per row
ToCsv(df) ==
    <<JoinComma(df.cols)>>
    \o [i \in 1..Len(df.rows) |->
          JoinComma([j \in 1..Len(df.cols) |-> FormatValue(df.rows[i][j])])]

\* variant: to_csv appends to the file (mode='a')
ExportResult_Append(old, stage, df) ==
    CASE stage \in {"execute raised", "fetch raised"} -> {old}
      [] stage = "to_csv raised" ->
            {old} \cup { File(old.lines \o SubSeq(ToCsv(df), 1, k)) : k \in 0..(Len(ToCsv(df)) - 1) }
      [] OTHER -> { File(old.lines \o ToCsv(df)) }

\* variant: the output file is opened for writing before the query is run
ExportResult_OpenFirst(old, stage, df) ==
    CASE stage \in {"execute raised", "fetch raised"} -> { File(<<>>) }
      [] stage = "to_csv raised" ->
            { File(SubSeq(ToCsv(df), 1, k)) : k \in 0..(Len(ToCsv(df)) - 1) }
      [] OTHER -> { File(ToCsv(df)) }

\* The file execute_query can leave at output_csv_path, by the statement that
\* ended the call.  Nothing touches the file before to_csv; to_csv opens it
\* for writing (truncating it), and when it raises the file is as it was
\* (the open failed) or holds a proper prefix of the text.
ExportResult(old, stage, df) ==
    CASE stage \in {"execute raised", "fetch raised"} -> {old}
      [] stage = "to_csv raised" ->
            {old} \cup { File(SubSeq(ToCsv(df), 1, k)) : k \in 0..(Len(ToCsv(df)) - 1) }
      [] OTHER -> { File(ToCsv(df)) }

ExecStages == {"execute raised", "fetch raised", "to_csv raised", "written"}

execute_query ==
    /\ pc = "execute_query"
    /\ trace' = Append(trace, "execute_query")
    /\ UNCHANGED << runs, env, obj, handles, ret, query, sql_file_full_path,
                    exc, outputAtStart >>
    /\ \E stage \in ExecStages, df \in Tables :
         \* without a cursor self.cur.execute raises AttributeError
         /\ (cur = None => stage = "execute raised")
         /\ \E f \in ExportResult(output_csv, stage, df) : output_csv' = f
         /\ execStage' = stage
         /\ lastExport' = IF stage = "written" THEN Some(df) ELSE lastExport
         /\ exportCount' = IF stage = "written" THEN exportCount + 1 ELSE exportCount
    \* every exception is caught; main() goes on to line 115
    /\ pc' = "close_115"

\* ------------------------------------------------------------------ close
close ==
    /\ pc \in {"close_107", "close_115"}
    /\ UNCHANGED << runs, env, disk, obj, ret, query, sql_file_full_path,
                    execStage, outputAtStart >>
    /\ \E curOk \in BOOLEAN, connOk \in BOOLEAN, left \in {"open", "closed"} :
         IF cur # None /\ ~curOk
         THEN \* self.cur.close() raised: the rest of close() does not run
              /\ trace' = trace \o <<"close", "cur.close">>
              /\ curState' = left
              /\ UNCHANGED connState
              /\ pc' = "raised"
              /\ exc' = "cur.close"
         ELSE LET t == trace \o <<"close">> \o (IF cur # None THEN <<"cur.close">> ELSE <<>>)
              IN /\ curState' = IF cur # None THEN "closed" ELSE curState
                 /\ IF conn = None
                    THEN /\ trace' = t
                         /\ UNCHANGED << connState, exc >>
                         /\ pc' = "returned"
                    ELSE /\ trace' = t \o <<"conn.close">>
                         /\ IF connOk
                            THEN /\ connState' = "closed"
                                 /\ pc' = "returned"
                                 /\ UNCHANGED exc
                            ELSE /\ connState' = left
                                 /\ pc' = "raised"
                                 /\ exc' = "conn.close"

\* ------------------------------------------------------------------- main
\* The program is started again on the same installation: a new process and a
\* new SnowflakeDataPull, the same configuration and SQL file, and the output
\* file as the last run left it.
main ==
    /\ pc \in {"returned", "raised"}
    /\ runs < MaxRuns
    /\ runs' = runs + 1
    /\ UNCHANGED env
    /\ pc' = "load_config"
    /\ sf_config' = {}
    /\ queries_config' = {}
    /\ conn' = None
    /\ cur' = None
    /\ connState' = "none"
    /\ curState' = "none"
    /\ trace' = <<>>
    /\ ret' = NoRet
    /\ query' = None
    /\ sql_file_full_path' = None
    /\ execStage' = "not called"
    /\ exc' = "none"
    /\ outputAtStart' = output_csv
    /\ UNCHANGED disk

Next ==
    \/ load_config
    \/ connect
    \/ get_sql_query
    \/ execute_query
    \/ close
    \/ main

Spec == Init /\ [][Next]_vars

\* main() is over, by return or by an exception
Exited == pc \in {"returned", "raised"}

\* ------------------------------------------------------------------ claims

\* C1: on every exit path of main() no connection or cursor opened during
\* the run is still open.
C1_NoHandleOpenAtExit ==
    Exited => connState # "open" /\ curState # "open"

\* C2: a configuration file that lacks SNOWFLAKE_SERVER or SNOWFLAKE_DATAPULL
\* makes load_config return False, and in that run connect, get_sql_query and
\* execute_query are never called and the output file is not written.
LacksRequiredSection ==
    /\ config_file.kind = "parsed"
    /\ ~({"SNOWFLAKE_SERVER", "SNOWFLAKE_DATAPULL"} \subseteq config_file.sections)

C2_MissingSectionStopsRun ==
    LacksRequiredSection =>
        /\ pc \in {"load_config", "returned"}
        /\ (Called("load_config") => ret.load_config = "False" /\ pc = "returned")
        /\ ~Called("connect") /\ ret.connect = "not called"
        /\ ~Called("get_sql_query")
        /\ ~Called("execute_query")
        /\ connState = "none" /\ curState = "none"
        /\ output_csv = outputAtStart

C2_Witness ==
    /\ config_file.kind = "parsed"
    /\ config_file.sections = {"SNOWFLAKE_SERVER", "QUERIES"}
    /\ Called("load_config")
    /\ pc = "returned"

ListedFailureKindsOnly ==
    /\ config_file.kind # "malformed"
    /\ exc \notin {"cur.close", "conn.close"}

C4_NoExceptionLeavesMain ==
    ListedFailureKindsOnly => pc # "raised" /\ exc = "none"

\* C5: once close() has run, the connection's close was attempted whenever a
\* connection exists, whether or not a cursor exists and whether or not the
\* cursor's close succeeded; and close() itself did not fail.
C5_CloseReleasesIndependently ==
    (Called("close") /\ Exited) =>
        /\ (conn # None => Called("conn.close"))
        /\ exc # "cur.close"

\* C6: in a run in which a session was opened, cursor and connection are each
\* released exactly once by the time main() is over, the cursor first.
C6_ReleasedExactlyOnce ==
    (Exited /\ ret.connect = "True") =>
        /\ Count("cur.close") = 1
        /\ Count("conn.close") = 1
        /\ Pos("cur.close") < Pos("conn.close")

\* C7: when the SQL file is missing, empty or all whitespace, get_sql_query
\* returns None without raising, execute_query is never called in that run
\* and the output file is not written.
AllWhitespace(text) == \A i \in 1..Len(text) : text[i] = " " \/ text[i] = "\n"

NoQueryInFile ==
    /\ Called("get_sql_query")
    /\ LET f == FileAt(sql_file_full_path[1])
       IN \/ f.kind = "missing"
          \/ f.kind = "file" /\ AllWhitespace(f.text)

C7_BlankSqlGivesNoQuery ==
    NoQueryInFile =>
        /\ query = None
        /\ exc # "open"
        /\ pc \in {"close_107", "returned", "raised"}
        /\ ~Called("execute_query")
        /\ execStage = "not called"
        /\ output_csv = outputAtStart

C7_Witness ==
    /\ Called("get_sql_query")
    /\ FileAt(sql_file_full_path[1]) = [kind |-> "file", text |-> <<" ", "\n">>]
    /\ pc = "returned"

\* C8: the resolved path is the configured one if it is absolute, the base
\* directory joined with it if it is relative, and the base directory joined
\* with customer.sql when no sql_query is configured.
ExpectedSqlPath ==
    LET p == IF config_file.sql_query = <<>> THEN <<"customer.sql">>
             ELSE config_file.sql_query[1]
    IN IF p # <<>> /\ p[1] = "/" THEN p
       ELSE IF base_dir[Len(base_dir)] = "/" THEN base_dir \o p
       ELSE base_dir \o <<"/">> \o p

C8_PathResolution ==
    Called("get_sql_query") => sql_file_full_path = <<ExpectedSqlPath>>

C8_Witness ==
    /\ Called("get_sql_query")
    /\ config_file.sql_query = << <<"q.sql">> >>
    /\ sql_file_full_path = << <<"/", "app", "/", "q.sql">> >>

\* C9: after a second completed export to the same path the output file holds
\* exactly the header and rows of the second result.
C9_SecondExportOverwrites ==
    (exportCount >= 2 /\ execStage = "written") =>
        /\ output_csv.exists
        /\ Len(output_csv.lines) = 1 + Len(lastExport[1].rows)
        /\ output_csv.lines = ToCsv(lastExport[1])

C9_Witness ==
    /\ exportCount = 2
    /\ execStage = "written"
    /\ pc = "returned"
    /\ outputAtStart = File(<< <<"X">>, <<"1">> >>)
    /\ output_csv = File(<< <<"X", ",", "Y">>, <<"2", ",", "1">> >>)

\* C10: when execute_query fails while submitting the query or fetching the
\* result, the output file is as it was before the call, no exception leaves
\* execute_query, and main() goes on to call close().
C10_EarlyFailureLeavesFile ==
    execStage \in {"execute raised", "fetch raised"} =>
        /\ output_csv = outputAtStart
        /\ pc \in {"close_115", "returned", "raised"}
        /\ exc \in {"none", "cur.close", "conn.close"}
        /\ (Exited => Called("close") /\ Called("cur.close"))
        /\ Pos("execute_query") = Len(trace) \/ trace[Pos("execute_query") + 1] = "close"

C10_Witness ==
    /\ execStage = "fetch raised"
    /\ outputAtStart = File(<< <<"stale">> >>)
    /\ pc = "returned"
    /\ curState = "closed" /\ connState = "closed"
====
